---- MODULE Spec2Model ----
(***************************************************************************)
(* Model of gitSim.py: one run of main().  Dates are proleptic ordinals    *)
(* (date.toordinal()), strings that the code parses are sequences of       *)
(* one-character strings, and every external command (git, forge API) is   *)
(* a step whose success or failure is chosen nondeterministically.  The    *)
(* activity file and the commit log only grow during a run: the model      *)
(* keeps, for each, the number of entries added and the entry added last.  *)
(***************************************************************************)
EXTENDS Integers, Sequences, FiniteSets, TLC

VARIABLES args, today, gitExists, fileExists, remotes, originUrl, token,
          pc, exc, current_date, draw, num_commits, commit_idx, commit_time,
          dayCommits, recordCount, lastRecord, commitCount, lastCommit,
          visited, nDraws, trace, log,
          github_repo_name, pr

vars == <<args, today, gitExists, fileExists, remotes, originUrl, token,
          pc, exc, current_date, draw, num_commits, commit_idx, commit_time,
          dayCommits, recordCount, lastRecord, commitCount, lastCommit,
          visited, nDraws, trace, log,
          github_repo_name, pr>>

(* ------------------------------ bounds --------------------------------- *)
MaxDaysBefore == 1
MaxDaysAfter == 1
MaxCommits == 2
FirstToday == 8
MainMaxCommits == 1

(* --------------------------- program constants ------------------------- *)
DrawMax == 100
WeekendFrom == 5

(* ------------------------------ strings -------------------------------- *)
SSH_PREFIX == <<"g","i","t","@","g","i","t","h","u","b",".","c","o","m",":">>
HTTPS_PREFIX == <<"h","t","t","p","s",":","/","/","g","i","t","h","u","b",".","c","o","m","/">>
GIT_SUFFIX == <<".","g","i","t">>
ORIGIN == <<"o","r","i","g","i","n">>

StartsWith(s, p) == Len(s) >= Len(p) /\ SubSeq(s, 1, Len(p)) = p
EndsWith(s, p) == Len(s) >= Len(p) /\ SubSeq(s, Len(s) - Len(p) + 1, Len(s)) = p
Contains(s, p) == \E i \in 0..(Len(s) - Len(p)) : SubSeq(s, i + 1, i + Len(p)) = p
DropPrefix(s, n) == SubSeq(s, n + 1, Len(s))
DropSuffix(s, n) == SubSeq(s, 1, Len(s) - n)

(* Python None / an absent option: distinct from every character string *)
None == <<"None">>

StripPrefix(u) ==
    IF StartsWith(u, SSH_PREFIX) THEN DropPrefix(u, Len(SSH_PREFIX))
    ELSE IF StartsWith(u, HTTPS_PREFIX) THEN DropPrefix(u, Len(HTTPS_PREFIX))
    ELSE u

StripSuffix(u) == IF EndsWith(u, GIT_SUFFIX) THEN DropSuffix(u, Len(GIT_SUFFIX)) ELSE u

(* the value returned on the non-exceptional path of the lookup *)
RepoNameOf(u) == StripSuffix(StripPrefix(u))

(* Python truthiness of an Optional[str] *)
Truthy(v) == v # None /\ v # <<>>

(* ------------------------------- inputs -------------------------------- *)
OwnerRepo == <<"u","/","r">>
SshUrl == SSH_PREFIX \o OwnerRepo \o GIT_SUFFIX
HttpsUrl == HTTPS_PREFIX \o OwnerRepo
GitlabUrl == <<"g","i","t","@","g","i","t","l","a","b",".","c","o","m",":">> \o OwnerRepo \o GIT_SUFFIX
BareSuffixUrl == SSH_PREFIX \o GIT_SUFFIX

Urls == {SshUrl, HttpsUrl, GitlabUrl, BareSuffixUrl}
RemoteSets == {{}, {ORIGIN}, {<<"m","y">> \o ORIGIN}}
Frequencies == {0, 50, DrawMax}
(* the draws at the ends of the range and on either side of each frequency *)
Draws == ({1, DrawMax} \cup Frequencies \cup {f + 1 : f \in Frequencies}) \cap (1..DrawMax)
TimesOfDay == {<<0, 0, 0>>, <<23, 59, 59>>}

(* ------------------------------- dates --------------------------------- *)
Weekday(d) == (d + 6) % 7
(* variant: `weekday() > 5`, which lets Saturdays through *)
IsWeekend_SundayOnly(d) == Weekday(d) > WeekendFrom
IsWeekend(d) == Weekday(d) >= WeekendFrom
start_date == today - args.days_before
end_date == today + args.days_after
(* variant: `current_date < end_date`, which stops a day early *)
InRange_Exclusive(d) == d < end_date
(* the loop condition of line 79 *)
InRange(d) == d <= end_date
(* line 81 *)
Skipped(d) == args.no_weekends /\ IsWeekend(d)
(* variant: `randint(1, 100) < frequency` *)
Active_Strict(d) == d < args.frequency
(* line 86, for the value drawn *)
Active(d) == d <= args.frequency

(* str(datetime), datetime.isoformat(), strftime('%Y-%m-%d %H:%M:%S') *)
StrOf(ct) == [date |-> ct[1], sep |-> " ", time |-> ct[2]]
IsoOf(ct) == [date |-> ct[1], sep |-> "T", time |-> ct[2]]
StrfOf(ct) == [date |-> ct[1], sep |-> " ", time |-> ct[2]]
(* git's reading of GIT_AUTHOR_DATE / GIT_COMMITTER_DATE *)
GitDateOf(iso) == <<iso.date, iso.time>>
RecordLine(ct) == [prefix |-> "Update at ", text |-> StrOf(ct)]
RecordTimestamp(r) == <<r.text.date, r.text.time>>

Logged(level, msg) == log' = log \cup {<<level, msg>>}

(* the commit git creates under GIT_AUTHOR_DATE and GIT_COMMITTER_DATE *)
CommitOf(ct) == [author_date |-> GitDateOf(IsoOf(ct)),
                 committer_date |-> GitDateOf(IsoOf(ct)),
                 message |-> StrfOf(ct)]

NoTime == <<0, <<0, 0, 0>>>>

(* the state of the process when main() is entered *)
Started ==
    /\ pc = "init_repo"
    /\ exc = "none"
    /\ current_date = 0
    /\ draw = 0
    /\ num_commits = 0
    /\ commit_idx = 0
    /\ commit_time = NoTime
    /\ dayCommits = 0
    /\ recordCount = 0
    /\ lastRecord = RecordLine(NoTime)
    /\ commitCount = 0
    /\ lastCommit = CommitOf(NoTime)
    /\ visited = <<>>
    /\ nDraws = 0
    /\ trace = <<>>
    /\ log = {}
    /\ github_repo_name = None
    /\ pr = FALSE

(* every shape of the repository option and of the environment (a          *)
(* directory without a repository has no remotes); the date range is the   *)
(* single day `today`, a Friday or a Saturday                              *)
Init ==
    /\ args \in [repository : {None, <<>>} \cup Urls,
                 max_commits : 0..MainMaxCommits,
                 frequency : {0, DrawMax},
                 no_weekends : BOOLEAN,
                 days_before : {0},
                 days_after : {0}]
    /\ today \in (FirstToday + 4)..(FirstToday + 5)
    /\ gitExists \in BOOLEAN
    /\ fileExists \in BOOLEAN
    /\ remotes \in IF gitExists THEN RemoteSets ELSE {{}}
    /\ originUrl \in IF ORIGIN \in remotes THEN Urls ELSE {None}
    /\ token \in BOOLEAN
    /\ Started

(* runs without --repository in an initialized repository that holds the   *)
(* activity file, over every date range within the bounds and every        *)
(* weekday of `today`                                                      *)
InitCommits ==
    /\ args \in [repository : {None},
                 max_commits : 0..MaxCommits,
                 frequency : Frequencies,
                 no_weekends : BOOLEAN,
                 days_before : 0..MaxDaysBefore,
                 days_after : 0..MaxDaysAfter]
    /\ today \in FirstToday..(FirstToday + 6)
    /\ gitExists = TRUE
    /\ fileExists = TRUE
    /\ remotes = {}
    /\ originUrl = None
    /\ token = FALSE
    /\ Started

(* --------------------------- abnormal endings -------------------------- *)
(* subprocess.run(check=True) outside any try: CalledProcessError leaves main *)
Raise(e) == pc' = "aborted" /\ exc' = e

(* the external commands and API calls of the run, in order *)
Trace(op, ok, arg) == trace' = Append(trace, [op |-> op, ok |-> ok, arg |-> arg])

(* main's branch after init_repo() returns: `if args.repository:` *)
AfterInitRepo == IF Truthy(args.repository) THEN "set_remote" ELSE "simulate_commits"

(* ------------------------------ init_repo ------------------------------ *)
InitRepoNew ==
    /\ pc = "init_repo" /\ ~gitExists
    /\ gitExists' = TRUE
    /\ Trace("git init", TRUE, None)
    /\ Logged("INFO", "Initialized a new git repository.")
    /\ pc' = AfterInitRepo
    /\ UNCHANGED <<args, today, fileExists, remotes, originUrl, token, exc,
                   current_date, draw, num_commits, commit_idx, commit_time,
                   dayCommits, recordCount, lastRecord, commitCount, lastCommit,
                   visited, nDraws,
                   github_repo_name, pr>>

InitRepoFail ==
    /\ pc = "init_repo" /\ ~gitExists
    /\ Trace("git init", FALSE, None)
    /\ Raise("CalledProcessError")
    /\ UNCHANGED <<args, today, gitExists, fileExists, remotes, originUrl, token,
                   current_date, draw, num_commits, commit_idx, commit_time,
                   dayCommits, recordCount, lastRecord, commitCount, lastCommit,
                   visited, nDraws, log,
                   github_repo_name, pr>>

InitRepoExisting ==
    /\ pc = "init_repo" /\ gitExists
    /\ Logged("INFO", "Git repository already initialized.")
    /\ pc' = AfterInitRepo
    /\ UNCHANGED <<args, today, gitExists, fileExists, remotes, originUrl, token, exc,
                   current_date, draw, num_commits, commit_idx, commit_time,
                   dayCommits, recordCount, lastRecord, commitCount, lastCommit,
                   visited, nDraws, trace,
                   github_repo_name, pr>>

(* ------------------------------ set_remote ----------------------------- *)
(* `"origin" not in result.stdout`: a substring test on the remote listing *)
OriginListed == \E r \in remotes : Contains(r, ORIGIN)

SetRemoteAdd ==
    /\ pc = "set_remote" /\ ~OriginListed
    /\ remotes' = remotes \cup {ORIGIN}
    /\ originUrl' = args.repository
    /\ Trace("git remote add", TRUE, args.repository)
    /\ Logged("INFO", "Set remote origin")
    /\ pc' = "simulate_commits"
    /\ UNCHANGED <<args, today, gitExists, fileExists, token, exc,
                   current_date, draw, num_commits, commit_idx, commit_time,
                   dayCommits, recordCount, lastRecord, commitCount, lastCommit,
                   visited, nDraws,
                   github_repo_name, pr>>

SetRemoteAddFail ==
    /\ pc = "set_remote" /\ ~OriginListed
    /\ Trace("git remote add", FALSE, args.repository)
    /\ Raise("CalledProcessError")
    /\ UNCHANGED <<args, today, gitExists, fileExists, remotes, originUrl, token,
                   current_date, draw, num_commits, commit_idx, commit_time,
                   dayCommits, recordCount, lastRecord, commitCount, lastCommit,
                   visited, nDraws, log,
                   github_repo_name, pr>>

SetRemoteExisting ==
    /\ pc = "set_remote" /\ OriginListed
    /\ Logged("INFO", "Remote origin already set.")
    /\ pc' = "simulate_commits"
    /\ UNCHANGED <<args, today, gitExists, fileExists, remotes, originUrl, token, exc,
                   current_date, draw, num_commits, commit_idx, commit_time,
                   dayCommits, recordCount, lastRecord, commitCount, lastCommit,
                   visited, nDraws, trace,
                   github_repo_name, pr>>

(* ---------------------------- simulate_commits ------------------------- *)
(* lines 65-78: ensure the activity file, compute the range, set the cursor *)
SimulateStart ==
    /\ pc = "simulate_commits"
    /\ fileExists' = TRUE
    /\ IF fileExists THEN Logged("INFO", "Using existing file")
                     ELSE Logged("INFO", "Created file")
    /\ current_date' = start_date
    /\ pc' = "while"
    /\ UNCHANGED <<args, today, gitExists, remotes, originUrl, token, exc,
                   draw, num_commits, commit_idx, commit_time,
                   dayCommits, recordCount, lastRecord, commitCount, lastCommit,
                   visited, nDraws, trace,
                   github_repo_name, pr>>

(* lines 79-83: weekend day with --no_weekends: advance and continue *)
SkipWeekend ==
    /\ pc = "while" /\ InRange(current_date)
    /\ Skipped(current_date)
    /\ current_date' = current_date + 1
    /\ UNCHANGED <<args, today, gitExists, fileExists, remotes, originUrl, token,
                   pc, exc, draw, num_commits, commit_idx, commit_time,
                   dayCommits, recordCount, lastRecord, commitCount, lastCommit,
          visited, nDraws, trace, log,
                   github_repo_name, pr>>

(* line 79-85: the day passes the filter and reaches the activation draw *)
EnterDay ==
    /\ pc = "while" /\ InRange(current_date)
    /\ ~Skipped(current_date)
    /\ visited' = Append(visited, current_date)
    /\ dayCommits' = 0
    /\ pc' = "draw"
    /\ UNCHANGED <<args, today, gitExists, fileExists, remotes, originUrl, token,
                   exc, current_date, draw, num_commits, commit_idx, commit_time,
                   recordCount, lastRecord, commitCount, lastCommit, nDraws, trace, log,
                   github_repo_name, pr>>

(* line 86 false: random.randint(1, 100) > frequency *)
DrawInactive ==
    /\ pc = "draw"
    /\ \E d \in Draws :
         /\ ~Active(d)
         /\ draw' = d
    /\ nDraws' = nDraws + 1
    /\ num_commits' = 0
    /\ commit_idx' = 0
    /\ pc' = "day_end"
    /\ UNCHANGED <<args, today, gitExists, fileExists, remotes, originUrl, token,
                   exc, current_date, commit_time,
                   dayCommits, recordCount, lastRecord, commitCount, lastCommit,
                   visited, trace, log,
                   github_repo_name, pr>>

(* lines 86-88: active day, num_commits = random.randint(1, max_commits) *)
DrawActive ==
    /\ pc = "draw"
    /\ \E d \in Draws :
         /\ Active(d)
         /\ draw' = d
    /\ nDraws' = nDraws + 1
    /\ args.max_commits >= 1
    /\ \E n \in 1..args.max_commits : num_commits' = n
    /\ commit_idx' = 0
    /\ pc' = "for"
    /\ UNCHANGED <<args, today, gitExists, fileExists, remotes, originUrl, token,
                   exc, current_date, commit_time,
                   dayCommits, recordCount, lastRecord, commitCount, lastCommit,
                   visited, trace, log,
                   github_repo_name, pr>>

(* line 87 with max_commits < 1: randint(1, 0) raises ValueError *)
DrawActiveEmptyRange ==
    /\ pc = "draw"
    /\ \E d \in Draws :
         /\ Active(d)
         /\ draw' = d
    /\ nDraws' = nDraws + 1
    /\ args.max_commits < 1
    /\ Raise("ValueError")
    /\ UNCHANGED <<args, today, gitExists, fileExists, remotes, originUrl, token,
                   current_date, num_commits, commit_idx, commit_time,
                   dayCommits, recordCount, lastRecord, commitCount, lastCommit,
                   visited, trace, log,
                   github_repo_name, pr>>

(* lines 88-95: next iteration of the for loop: pick a time, append the line *)
WriteRecord ==
    /\ pc = "for" /\ commit_idx < num_commits
    /\ \E t \in TimesOfDay :
         /\ commit_time' = <<current_date, t>>
         /\ lastRecord' = RecordLine(<<current_date, t>>)
    /\ recordCount' = recordCount + 1
    /\ commit_idx' = commit_idx + 1
    /\ pc' = "git_add"
    /\ UNCHANGED <<args, today, gitExists, fileExists, remotes, originUrl, token,
                   exc, current_date, draw, num_commits,
                   dayCommits, commitCount, lastCommit, visited, nDraws, trace, log,
                   github_repo_name, pr>>

(* line 101 *)
GitAdd ==
    /\ pc = "git_add"
    /\ pc' = "git_commit"
    /\ UNCHANGED <<args, today, gitExists, fileExists, remotes, originUrl, token,
                   exc, current_date, draw, num_commits, commit_idx, commit_time,
                   dayCommits, recordCount, lastRecord, commitCount, lastCommit,
          visited, nDraws, trace, log,
                   github_repo_name, pr>>

GitAddFail ==
    /\ pc = "git_add"
    /\ Trace("git add", FALSE, None)
    /\ Raise("CalledProcessError")
    /\ UNCHANGED <<args, today, gitExists, fileExists, remotes, originUrl, token,
                   current_date, draw, num_commits, commit_idx, commit_time,
                   dayCommits, recordCount, lastRecord, commitCount, lastCommit,
                   visited, nDraws, log,
                   github_repo_name, pr>>

(* lines 102-104: the commit carries the dates git reads from the environment *)
GitCommit ==
    /\ pc = "git_commit"
    /\ lastCommit' = CommitOf(commit_time)
    /\ commitCount' = commitCount + 1
    /\ dayCommits' = dayCommits + 1
    /\ Logged("INFO", "Committed")
    /\ pc' = "for"
    /\ UNCHANGED <<args, today, gitExists, fileExists, remotes, originUrl, token,
                   exc, current_date, draw, num_commits, commit_idx, commit_time,
                   recordCount, lastRecord, visited, nDraws, trace,
                   github_repo_name, pr>>

GitCommitFail ==
    /\ pc = "git_commit"
    /\ Trace("git commit", FALSE, None)
    /\ Raise("CalledProcessError")
    /\ UNCHANGED <<args, today, gitExists, fileExists, remotes, originUrl, token,
                   current_date, draw, num_commits, commit_idx, commit_time,
                   dayCommits, recordCount, lastRecord, commitCount, lastCommit,
                   visited, nDraws, log,
                   github_repo_name, pr>>

(* the for loop is exhausted *)
ForDone ==
    /\ pc = "for" /\ ~(commit_idx < num_commits)
    /\ pc' = "day_end"
    /\ UNCHANGED <<args, today, gitExists, fileExists, remotes, originUrl, token,
                   exc, current_date, draw, num_commits, commit_idx, commit_time,
                   dayCommits, recordCount, lastRecord, commitCount, lastCommit,
          visited, nDraws, trace, log,
                   github_repo_name, pr>>

(* line 105 *)
NextDay ==
    /\ pc = "day_end"
    /\ current_date' = current_date + 1
    /\ pc' = "while"
    /\ UNCHANGED <<args, today, gitExists, fileExists, remotes, originUrl, token,
                   exc, draw, num_commits, commit_idx, commit_time,
                   dayCommits, recordCount, lastRecord, commitCount, lastCommit,
          visited, nDraws, trace, log,
                   github_repo_name, pr>>

(* variant: main enters the remote phase without testing args.repository *)
WhileDone_AlwaysBranch ==
    /\ pc = "while" /\ ~InRange(current_date)
    /\ pc' = "create_new_branch"
    /\ UNCHANGED <<args, today, gitExists, fileExists, remotes, originUrl, token,
                   exc, current_date, draw, num_commits, commit_idx, commit_time,
                   dayCommits, recordCount, lastRecord, commitCount, lastCommit,
          visited, nDraws, trace, log,
                   github_repo_name, pr>>

(* line 79 false: simulate_commits returns; main line 200 *)
WhileDone ==
    /\ pc = "while" /\ ~InRange(current_date)
    /\ pc' = IF Truthy(args.repository) THEN "create_new_branch" ELSE "no_remote"
    /\ UNCHANGED <<args, today, gitExists, fileExists, remotes, originUrl, token,
                   exc, current_date, draw, num_commits, commit_idx, commit_time,
                   dayCommits, recordCount, lastRecord, commitCount, lastCommit,
          visited, nDraws, trace, log,
                   github_repo_name, pr>>

(* ------------------------- create_new_branch --------------------------- *)
CreateBranch ==
    /\ pc = "create_new_branch"
    /\ Trace("git checkout -b", TRUE, None)
    /\ Logged("INFO", "Created and switched to branch")
    /\ pc' = "push_branch"
    /\ UNCHANGED <<args, today, gitExists, fileExists, remotes, originUrl, token,
                   exc, current_date, draw, num_commits, commit_idx, commit_time,
                   dayCommits, recordCount, lastRecord, commitCount, lastCommit,
                   visited, nDraws,
                   github_repo_name, pr>>

(* variant: the except clause logs the error and does not exit *)
CreateBranchFail_NoExit ==
    /\ pc = "create_new_branch"
    /\ Trace("git checkout -b", FALSE, None)
    /\ Logged("ERROR", "Error creating branch")
    /\ pc' = "push_branch"
    /\ UNCHANGED <<args, today, gitExists, fileExists, remotes, originUrl, token,
                   exc, current_date, draw, num_commits, commit_idx, commit_time,
                   dayCommits, recordCount, lastRecord, commitCount, lastCommit,
                   visited, nDraws,
                   github_repo_name, pr>>

(* lines 134-136: the error is logged and sys.exit ends the process *)
CreateBranchFail ==
    /\ pc = "create_new_branch"
    /\ Trace("git checkout -b", FALSE, None)
    /\ Logged("ERROR", "Error creating branch")
    /\ Raise("SystemExit")
    /\ UNCHANGED <<args, today, gitExists, fileExists, remotes, originUrl, token,
                   current_date, draw, num_commits, commit_idx, commit_time,
                   dayCommits, recordCount, lastRecord, commitCount, lastCommit,
                   visited, nDraws,
                   github_repo_name, pr>>

(* ------------------------------ push_branch ---------------------------- *)
PushBranch ==
    /\ pc = "push_branch"
    /\ ORIGIN \in remotes
    /\ Trace("git push", TRUE, None)
    /\ Logged("INFO", "Pushed branch")
    /\ pc' = "get_repo_name"
    /\ UNCHANGED <<args, today, gitExists, fileExists, remotes, originUrl, token,
                   exc, current_date, draw, num_commits, commit_idx, commit_time,
                   dayCommits, recordCount, lastRecord, commitCount, lastCommit,
                   visited, nDraws,
                   github_repo_name, pr>>

(* variant: push_branch without its try/except *)
PushBranchFail_Uncaught ==
    /\ pc = "push_branch"
    /\ Trace("git push", FALSE, None)
    /\ Raise("CalledProcessError")
    /\ UNCHANGED <<args, today, gitExists, fileExists, remotes, originUrl, token,
                   current_date, draw, num_commits, commit_idx, commit_time,
                   dayCommits, recordCount, lastRecord, commitCount, lastCommit,
                   visited, nDraws, log,
                   github_repo_name, pr>>

PushBranchFail ==
    /\ pc = "push_branch"
    /\ Trace("git push", FALSE, None)
    /\ Logged("ERROR", "Error pushing branch")
    /\ pc' = "get_repo_name"
    /\ UNCHANGED <<args, today, gitExists, fileExists, remotes, originUrl, token,
                   exc, current_date, draw, num_commits, commit_idx, commit_time,
                   dayCommits, recordCount, lastRecord, commitCount, lastCommit,
                   visited, nDraws,
                   github_repo_name, pr>>

(* ------------------ get_github_repo_name_from_remote ------------------- *)
GetRepoName ==
    /\ pc = "get_repo_name"
    /\ ORIGIN \in remotes
    /\ github_repo_name' = RepoNameOf(originUrl)
    /\ Trace("git config --get", TRUE, originUrl)
    /\ Logged("INFO", "Determined GitHub repo name")
    /\ pc' = "check_repo_name"
    /\ UNCHANGED <<args, today, gitExists, fileExists, remotes, originUrl, token,
                   exc, current_date, draw, num_commits, commit_idx, commit_time,
                   dayCommits, recordCount, lastRecord, commitCount, lastCommit,
                   visited, nDraws, pr>>

(* lines 125-127: the command failed (always so when no origin is configured) *)
GetRepoNameFail ==
    /\ pc = "get_repo_name"
    /\ github_repo_name' = None
    /\ Trace("git config --get", FALSE, None)
    /\ Logged("ERROR", "Error getting GitHub repo name")
    /\ pc' = "check_repo_name"
    /\ UNCHANGED <<args, today, gitExists, fileExists, remotes, originUrl, token,
                   exc, current_date, draw, num_commits, commit_idx, commit_time,
                   dayCommits, recordCount, lastRecord, commitCount, lastCommit,
                   visited, nDraws, pr>>

(* main lines 208-210 *)
NoRepoNameReturn ==
    /\ pc = "check_repo_name"
    /\ ~Truthy(github_repo_name)
    /\ Logged("ERROR", "Could not determine GitHub repo name. Exiting.")
    /\ pc' = "returned"
    /\ UNCHANGED <<args, today, gitExists, fileExists, remotes, originUrl, token,
                   exc, current_date, draw, num_commits, commit_idx, commit_time,
                   dayCommits, recordCount, lastRecord, commitCount, lastCommit,
                   visited, nDraws, trace,
                   github_repo_name, pr>>

(* main lines 213-216: os.getenv("GITHUB_TOKEN") is absent or empty *)
NoTokenReturn ==
    /\ pc = "check_repo_name"
    /\ Truthy(github_repo_name)
    /\ ~token
    /\ Logged("ERROR", "GITHUB_TOKEN environment variable not set. Exiting.")
    /\ pc' = "returned"
    /\ UNCHANGED <<args, today, gitExists, fileExists, remotes, originUrl, token,
                   exc, current_date, draw, num_commits, commit_idx, commit_time,
                   dayCommits, recordCount, lastRecord, commitCount, lastCommit,
                   visited, nDraws, trace,
                   github_repo_name, pr>>

(* --------------------------- create_pull_request ----------------------- *)
(* variant: main calls create_pull_request without testing the token *)
CreatePullRequest_NoTokenCheck ==
    /\ pc = "check_repo_name"
    /\ Truthy(github_repo_name)
    /\ Trace("create_pull", TRUE, github_repo_name)
    /\ pr' = TRUE
    /\ Logged("INFO", "Created pull request")
    /\ pc' = "simulate_code_review"
    /\ UNCHANGED <<args, today, gitExists, fileExists, remotes, originUrl, token,
                   exc, current_date, draw, num_commits, commit_idx, commit_time,
                   dayCommits, recordCount, lastRecord, commitCount, lastCommit,
                   visited, nDraws,
                   github_repo_name>>

(* main lines 219-221 with create_pull_request returning the PR object *)
CreatePullRequest ==
    /\ pc = "check_repo_name"
    /\ Truthy(github_repo_name)
    /\ token
    /\ Trace("create_pull", TRUE, github_repo_name)
    /\ pr' = TRUE
    /\ Logged("INFO", "Created pull request")
    /\ pc' = "simulate_code_review"
    /\ UNCHANGED <<args, today, gitExists, fileExists, remotes, originUrl, token,
                   exc, current_date, draw, num_commits, commit_idx, commit_time,
                   dayCommits, recordCount, lastRecord, commitCount, lastCommit,
                   visited, nDraws,
                   github_repo_name>>

(* variant: main calls simulate_code_review without testing pr *)
CreatePullRequestFail_StillReviews ==
    /\ pc = "check_repo_name"
    /\ Truthy(github_repo_name)
    /\ token
    /\ Trace("create_pull", FALSE, github_repo_name)
    /\ pr' = FALSE
    /\ log' = log \cup {<<"ERROR", "Error creating pull request">>,
                        <<"ERROR", "Pull request creation failed.">>}
    /\ pc' = "simulate_code_review"
    /\ UNCHANGED <<args, today, gitExists, fileExists, remotes, originUrl, token,
                   exc, current_date, draw, num_commits, commit_idx, commit_time,
                   dayCommits, recordCount, lastRecord, commitCount, lastCommit,
                   visited, nDraws,
                   github_repo_name>>

(* lines 159-161 and main lines 222-223 *)
CreatePullRequestFail ==
    /\ pc = "check_repo_name"
    /\ Truthy(github_repo_name)
    /\ token
    /\ Trace("create_pull", FALSE, github_repo_name)
    /\ pr' = FALSE
    /\ log' = log \cup {<<"ERROR", "Error creating pull request">>,
                        <<"ERROR", "Pull request creation failed.">>}
    /\ pc' = "finish"
    /\ UNCHANGED <<args, today, gitExists, fileExists, remotes, originUrl, token,
                   exc, current_date, draw, num_commits, commit_idx, commit_time,
                   dayCommits, recordCount, lastRecord, commitCount, lastCommit,
                   visited, nDraws,
                   github_repo_name>>

(* --------------------------- simulate_code_review ---------------------- *)
ReviewEvent == "COMMENT"
ReviewBody(simulated_issues) == IF simulated_issues THEN "issues" ELSE "clean"

SimulateCodeReview ==
    /\ pc = "simulate_code_review"
    /\ \E simulated_issues \in BOOLEAN :
         Trace("create_review", TRUE, <<ReviewEvent, ReviewBody(simulated_issues)>>)
    /\ Logged("INFO", "Simulated code review: posted comment.")
    /\ pc' = "finish"
    /\ UNCHANGED <<args, today, gitExists, fileExists, remotes, originUrl, token,
                   exc, current_date, draw, num_commits, commit_idx, commit_time,
                   dayCommits, recordCount, lastRecord, commitCount, lastCommit,
                   visited, nDraws,
                   github_repo_name, pr>>

SimulateCodeReviewFail ==
    /\ pc = "simulate_code_review"
    /\ \E simulated_issues \in BOOLEAN :
         Trace("create_review", FALSE, <<ReviewEvent, ReviewBody(simulated_issues)>>)
    /\ Logged("ERROR", "Error simulating code review")
    /\ pc' = "finish"
    /\ UNCHANGED <<args, today, gitExists, fileExists, remotes, originUrl, token,
                   exc, current_date, draw, num_commits, commit_idx, commit_time,
                   dayCommits, recordCount, lastRecord, commitCount, lastCommit,
                   visited, nDraws,
                   github_repo_name, pr>>

(* ------------------------------ end of main ---------------------------- *)
(* lines 224-225 *)
NoRemote ==
    /\ pc = "no_remote"
    /\ Logged("INFO", "No remote repository provided")
    /\ pc' = "finish"
    /\ UNCHANGED <<args, today, gitExists, fileExists, remotes, originUrl, token,
                   exc, current_date, draw, num_commits, commit_idx, commit_time,
                   dayCommits, recordCount, lastRecord, commitCount, lastCommit,
                   visited, nDraws, trace,
                   github_repo_name, pr>>

(* line 227 *)
Finish ==
    /\ pc = "finish"
    /\ Logged("INFO", "Bot execution finished.")
    /\ pc' = "done"
    /\ UNCHANGED <<args, today, gitExists, fileExists, remotes, originUrl, token,
                   exc, current_date, draw, num_commits, commit_idx, commit_time,
                   dayCommits, recordCount, lastRecord, commitCount, lastCommit,
                   visited, nDraws, trace,
                   github_repo_name, pr>>

Next ==
    \/ InitRepoNew \/ InitRepoFail \/ InitRepoExisting
    \/ SetRemoteAdd \/ SetRemoteAddFail \/ SetRemoteExisting
    \/ SimulateStart \/ SkipWeekend \/ EnterDay
    \/ DrawInactive \/ DrawActive \/ DrawActiveEmptyRange
    \/ WriteRecord \/ GitAdd \/ GitAddFail \/ GitCommit \/ GitCommitFail
    \/ ForDone \/ NextDay \/ WhileDone
    \/ CreateBranch \/ CreateBranchFail \/ PushBranch \/ PushBranchFail
    \/ GetRepoName \/ GetRepoNameFail \/ NoRepoNameReturn \/ NoTokenReturn
    \/ CreatePullRequest \/ CreatePullRequestFail
    \/ SimulateCodeReview \/ SimulateCodeReviewFail
    \/ NoRemote \/ Finish

Spec == Init /\ [][Next]_vars

(* main() when args.repository is absent *)
NextCommits ==
    \/ InitRepoExisting
    \/ SimulateStart \/ SkipWeekend \/ EnterDay
    \/ DrawInactive \/ DrawActive \/ DrawActiveEmptyRange
    \/ WriteRecord \/ GitAdd \/ GitAddFail \/ GitCommit \/ GitCommitFail
    \/ ForDone \/ NextDay \/ WhileDone
    \/ NoRemote \/ Finish

SpecCommits == InitCommits /\ [][NextCommits]_vars

TypeOK == pc \in {"init_repo", "set_remote", "simulate_commits", "while", "draw",
                  "for", "git_add", "git_commit", "day_end", "create_new_branch",
                  "no_remote", "push_branch", "get_repo_name", "check_repo_name",
                  "simulate_code_review", "finish", "done", "returned", "aborted"}

(* the scheduler runs the next statement of the single thread, and every    *)
(* external command returns                                                 *)
FairSpec == Spec /\ WF_vars(Next)
FairSpecCommits == SpecCommits /\ WF_vars(NextCommits)

(* ------------------------------ properties ----------------------------- *)
Terminated == pc \in {"done", "returned", "aborted"}
EndedNormally == pc \in {"done", "returned"}
HasOp(op) == \E i \in 1..Len(trace) : trace[i].op = op
Succeeded(op) == \E i \in 1..Len(trace) : trace[i].op = op /\ trace[i].ok
Failed(op) == \E i \in 1..Len(trace) : trace[i].op = op /\ ~trace[i].ok
UncaughtOps == {"git init", "git remote add", "git add", "git commit"}
CaughtOps == {"git push", "git config --get", "create_pull", "create_review"}
ForgeOps == {"create_pull", "create_review"}
ErrorLogOf(op) ==
    CASE op = "git push" -> "Error pushing branch"
      [] op = "git config --get" -> "Error getting GitHub repo name"
      [] op = "create_pull" -> "Error creating pull request"
      [] op = "create_review" -> "Error simulating code review"
      [] op = "git checkout -b" -> "Error creating branch"
Recognized(u) == StartsWith(u, SSH_PREFIX) \/ StartsWith(u, HTTPS_PREFIX)
DateOf(ts) == ts[1]
(* Saturday is weekday 5 and Sunday weekday 6 *)
SaturdayOrSunday(d) == Weekday(d) \in {5, 6}
WalkedDates ==
    {d \in (today - args.days_before)..(today + args.days_after) :
        ~(args.no_weekends /\ SaturdayOrSunday(d))}
InLoop == pc \in {"while", "draw", "for", "git_add", "git_commit", "day_end"}
AfterLoop == pc \in {"no_remote", "create_new_branch", "push_branch", "get_repo_name",
                     "check_repo_name", "simulate_code_review", "finish", "done",
                     "returned"}
                 \/ (pc = "aborted" /\ exc = "SystemExit")

(* C1: when the run has stopped, normally or on a failed stage/commit       *)
(* command, the records appended and the commits created are in one-to-one  *)
(* correspondence and each commit's author and committer date equal its     *)
(* record's timestamp.                                                      *)
C1_RecordsMatchCommits ==
    Terminated =>
        /\ recordCount = commitCount
        /\ commitCount > 0 =>
             /\ lastCommit.author_date = RecordTimestamp(lastRecord)
             /\ lastCommit.committer_date = RecordTimestamp(lastRecord)

(* C2, as stated: no failure of an external command other than branch       *)
(* creation ends the run early.                                             *)
C2_OnlyBranchFailureEndsRun ==
    \A i \in 1..Len(trace) :
        (~trace[i].ok /\ trace[i].op # "git checkout -b") => pc # "aborted"

C2_Safety ==
    /\ \A i \in 1..Len(trace) :
         ~trace[i].ok =>
           /\ trace[i].op \in UncaughtOps =>
                i = Len(trace) /\ pc = "aborted" /\ exc = "CalledProcessError"
           /\ trace[i].op = "git checkout -b" =>
                /\ i = Len(trace) /\ pc = "aborted" /\ exc = "SystemExit"
                /\ <<"ERROR", ErrorLogOf(trace[i].op)>> \in log
           /\ trace[i].op \in CaughtOps =>
                /\ pc # "aborted" /\ exc = "none"
                /\ <<"ERROR", ErrorLogOf(trace[i].op)>> \in log
    /\ (pc = "aborted" /\ exc # "ValueError") =>
         /\ trace # <<>>
         /\ ~trace[Len(trace)].ok
         /\ trace[Len(trace)].op \in UncaughtOps \cup {"git checkout -b"}

(* C2, amended: a failed git init, git remote add, git add or git commit    *)
(* raises out of main and a failed branch creation exits the process; these *)
(* are the only external failures that end the run early.  A failed push,   *)
(* remote-URL lookup, pull-request creation or review is caught and logged  *)
(* where it happens, and the run goes on to 'Bot execution finished' or a   *)
(* graceful return.                                                         *)
C2_FatalAndCaughtFailures ==
    /\ []C2_Safety
    /\ []((\E op \in CaughtOps : Failed(op)) => <>EndedNormally)

C2_Witness ==
    /\ pc = "done"
    /\ Failed("git push")
    /\ Failed("create_review")

(* C3: a failed branch creation is the last thing the run does: no push,    *)
(* pull request or review follows it.                                       *)
C3_NothingAfterFailedBranch ==
    \A i \in 1..Len(trace) :
        (trace[i].op = "git checkout -b" /\ ~trace[i].ok) =>
            /\ i = Len(trace)
            /\ pc = "aborted"
            /\ ~HasOp("git push") /\ ~HasOp("create_pull") /\ ~HasOp("create_review")

C3_Witness == pc = "aborted" /\ Failed("git checkout -b")

(* C4: for an origin URL with neither the SSH nor the HTTPS GitHub prefix   *)
(* the lookup returns None and main makes no forge API call.                *)
C4_UnrecognizedUrlGivesNone ==
    \A i \in 1..Len(trace) :
        (trace[i].op = "git config --get" /\ trace[i].ok /\ ~Recognized(trace[i].arg)) =>
            /\ github_repo_name = None
            /\ \A op \in ForgeOps : ~HasOp(op)

(* C5: without a repository URL the run sets no remote, creates no branch,  *)
(* pushes nothing and calls no forge API; after the commit loop it goes     *)
(* straight to the end of main.                                             *)
C5_NoRepositoryNoPipeline ==
    ~Truthy(args.repository) =>
        /\ \A i \in 1..Len(trace) : trace[i].op \in {"git init", "git add", "git commit"}
        /\ pc \in {"init_repo", "simulate_commits", "while", "draw", "for", "git_add",
                   "git_commit", "day_end", "no_remote", "finish", "done", "aborted"}
        /\ (pc = "done" => <<"INFO", "No remote repository provided">> \in log)

C5_Witness == ~Truthy(args.repository) /\ pc = "done" /\ commitCount > 0

(* C6: with a repository URL and no GITHUB_TOKEN, no pull request and no    *)
(* review is attempted; when the token is found missing the branch has been *)
(* created and the push attempted, the error is logged and main returns     *)
(* without an exception.                                                    *)
TokenErrorLogged == <<"ERROR", "GITHUB_TOKEN environment variable not set. Exiting.">> \in log

C6_NoTokenNoPullRequest ==
    (Truthy(args.repository) /\ ~token) =>
        /\ \A op \in ForgeOps : ~HasOp(op)
        /\ (pc = "check_repo_name" \/ TokenErrorLogged) =>
             \E i, j \in 1..Len(trace) :
                 /\ i < j
                 /\ trace[i].op = "git checkout -b" /\ trace[i].ok
                 /\ trace[j].op = "git push"
        /\ TokenErrorLogged => (pc = "returned" /\ exc = "none")
        /\ (pc = "check_repo_name" /\ Truthy(github_repo_name)) => ENABLED NoTokenReturn

C6_Witness == Truthy(args.repository) /\ ~token /\ TokenErrorLogged /\ Succeeded("git push")

(* the dates of the range up to and including d that are not left out *)
WeekdaysThrough(d) ==
    Cardinality({x \in WalkedDates : x <= d})

(* C7: with no_weekends no record and no commit is dated on a Saturday or   *)
(* Sunday, and the number of activation draws made is the number of         *)
(* Monday-to-Friday dates reached: a skipped weekend day draws nothing.     *)
C7_NoWeekendCommits ==
    args.no_weekends =>
        /\ commitCount > 0 =>
             /\ ~SaturdayOrSunday(DateOf(lastCommit.author_date))
             /\ ~SaturdayOrSunday(DateOf(lastCommit.committer_date))
        /\ recordCount > 0 => ~SaturdayOrSunday(DateOf(RecordTimestamp(lastRecord)))
        /\ pc \in {"while", "draw"} => nDraws = WeekdaysThrough(current_date - 1)
        /\ pc \in {"for", "git_add", "git_commit", "day_end"} =>
             nDraws = WeekdaysThrough(current_date)
        /\ AfterLoop => nDraws = WeekdaysThrough(end_date)

C7_Witness ==
    /\ args.no_weekends
    /\ pc = "done"
    /\ commitCount > 0
    /\ \E d \in start_date..end_date : SaturdayOrSunday(d)

(* C8: a day whose draw exceeds frequency ends with no commit, a day whose  *)
(* draw does not ends with 1..max_commits commits; frequency 0 gives no     *)
(* commit at all and frequency 100 makes every walked day active.           *)
C8_ActivationAndCount ==
    /\ pc = "day_end" =>
         /\ draw \in 1..DrawMax
         /\ draw > args.frequency => dayCommits = 0
         /\ draw <= args.frequency => dayCommits \in 1..args.max_commits
         /\ args.frequency = DrawMax => dayCommits >= 1
    /\ args.frequency = 0 => (commitCount = 0 /\ recordCount = 0)

C8_Witness ==
    /\ pc = "day_end"
    /\ draw = args.frequency
    /\ dayCommits = args.max_commits
    /\ args.max_commits > 1

(* C10: the loop ends, having visited each date of today - days_before ..   *)
(* today + days_after (weekends left out under no_weekends) exactly once,   *)
(* in ascending order; a zero-width range without weekend skipping is the   *)
(* single day today; commits come out in non-decreasing date order.         *)
C10_Safety ==
    /\ \A i, j \in 1..Len(visited) : i < j => visited[i] < visited[j]
    /\ \A i \in 1..Len(visited) : visited[i] \in WalkedDates
    /\ AfterLoop =>
         /\ {visited[i] : i \in 1..Len(visited)} = WalkedDates
         /\ (args.days_before = 0 /\ args.days_after = 0 /\ ~args.no_weekends) =>
                visited = <<today>>

(* a commit added after another is not dated before it *)
C10_CommitOrder ==
    (commitCount > 0 /\ commitCount' = commitCount + 1) =>
        DateOf(lastCommit'.author_date) >= DateOf(lastCommit.author_date)

C10_DateWalk ==
    /\ []C10_Safety
    /\ [][C10_CommitOrder]_vars
    /\ <>(~InLoop /\ pc # "init_repo" /\ pc # "simulate_commits")

C10_Witness ==
    /\ pc = "done"
    /\ Len(visited) > 1
    /\ Len(visited) < args.days_before + args.days_after + 1
    /\ commitCount > 1

(* C9: a review is posted at most once, only after a pull request was       *)
(* opened, and only as a COMMENT; a failed pull request skips the review    *)
(* and a failed review is logged, and in both cases main runs to its end.   *)
C9_ReviewOnlyAfterPullRequest ==
    /\ \A i \in 1..Len(trace) :
         trace[i].op = "create_review" =>
           /\ trace[i].arg[1] = "COMMENT"
           /\ \E j \in 1..(i - 1) : trace[j].op = "create_pull" /\ trace[j].ok
           /\ \A k \in 1..Len(trace) : trace[k].op = "create_review" => k = i
    /\ Failed("create_pull") =>
         /\ ~HasOp("create_review")
         /\ pc \in {"finish", "done"}
         /\ <<"ERROR", "Pull request creation failed.">> \in log
    /\ Failed("create_review") =>
         /\ <<"ERROR", ErrorLogOf("create_review")>> \in log
         /\ pc \in {"finish", "done"}

C9_Witness == pc = "done" /\ Succeeded("create_pull") /\ Succeeded("create_review")

====
